---------------------------- MODULE Spec2Model ----------------------------
(***************************************************************************)
(* Model of app.py, the earnings date fetcher:                             *)
(*   - fetch_from_yf (one symbol's resolution, memoised by st.cache_data), *)
(*   - the run block: symbol preprocessing, the thread pool, the           *)
(*     completion-order collection and the merge onto the uploaded rows.   *)
(*                                                                         *)
(* Text is a sequence of one-character strings, so that strip and upper    *)
(* are computed character by character.  Python's None and the values      *)
(* that may stand beside it are records tagged by the field py.            *)
(***************************************************************************)
EXTENDS Naturals, Integers, Sequences, FiniteSets, TLC

VARIABLES
    \* ---- one call chain of fetch_from_yf (specification ResolveSpec)
    pc,             \* position inside / around fetch_from_yf
    symbol,         \* the argument of the current call
    df,             \* line 60: what get_earnings_dates answered
    cal,            \* line 85: what calendar answered
    dt_candidates,  \* line 55
    used,           \* line 56
    now,            \* line 111
    clean,          \* lines 112-119
    next_dt,        \* line 121
    result,         \* lines 44-50
    calls,          \* provider queries made by the current call, in order
    cache,          \* st.cache_data: symbol -> memoised record
    \* ---- one run of the "Fetch Earnings Dates" block (specification Spec)
    raw,            \* the uploaded rows (line 155)
    max_workers,    \* the slider (line 149)
    legacy_str,     \* build: astype(str) turns a missing cell into "nan"
    mpc,            \* position of the script's main thread
    symbols,        \* line 165
    submitted,      \* how many of symbols have been handed to ex.submit
    queue,          \* the executor's work queue (task ids)
    running,        \* task ids a worker thread is executing
    futures,        \* task id -> outcome of its future
    yielded,        \* task ids as_completed has handed to the loop
    out_rows,       \* line 177
    completed,      \* line 178
    merged          \* line 198

rvars == <<pc, symbol, df, cal, dt_candidates, used, now, clean, next_dt, result, calls, cache>>
bvars == <<raw, max_workers, legacy_str, mpc, symbols, submitted, queue, running,
           futures, yielded, out_rows, completed, merged>>
vars == <<rvars, bvars>>

-----------------------------------------------------------------------------
(* Bounds of the model *)

\* longest uploaded sheet
MaxRows == 3
\* largest modelled slider position (the slider itself goes to 16)
MaxWorkers == 3
\* most date-like values in one provider response
MaxDates == 2
\* largest wall-clock reading of a date-like value
MaxWall == 2

\* program constant: the slider's min_value
MinWorkers == 2

-----------------------------------------------------------------------------
(* Python values *)

None == [py |-> "None"]
PyStr(s) == [py |-> "str", s |-> s]
PyDatetime(t) == [py |-> "datetime", t |-> t]

\* sequences over S of length lo..hi
SeqsOf(S, lo, hi) == UNION {[1..n -> S] : n \in lo..hi}

Range(s) == {s[i] : i \in 1..Len(s)}

RECURSIVE Keep(_, _)
\* the elements of s that lie in S, in order
Keep(s, S) ==
    IF s = <<>> THEN <<>>
    ELSE IF Head(s) \in S THEN <<Head(s)>> \o Keep(Tail(s), S)
         ELSE Keep(Tail(s), S)

-----------------------------------------------------------------------------
(* Date-like values of the provider, and their normalisation *)

\* a timestamp: wall-clock reading and time zone (naive, or UTC+1)
DateLikes == [kind : {"date"}, wall : 1..MaxWall, tz : {"naive", "plus1"}]
\* a value pandas cannot read as a date ("", "N/A", None)
BadValue == [kind |-> "bad", wall |-> 0, tz |-> "none"]
RawValues == DateLikes \cup {BadValue}

\* pd.to_datetime(x, errors="coerce") followed by dropna() / pd.notna
Coerce(vals) == Keep(vals, DateLikes)

\* pd.to_datetime(d, utc=True).to_pydatetime(): a naive value is taken as UTC,
\* an aware one is converted to UTC
ToUtc(d) == IF d.tz = "plus1" THEN d.wall - 1 ELSE d.wall

RECURSIVE NormalizeAll(_)
\* lines 112-118: the values that raise are skipped
NormalizeAll(cands) ==
    IF cands = <<>> THEN <<>>
    ELSE IF Head(cands).kind = "date"
         THEN <<ToUtc(Head(cands))>> \o NormalizeAll(Tail(cands))
         ELSE NormalizeAll(Tail(cands))

RECURSIVE Insert(_, _)
Insert(x, s) ==
    IF s = <<>> THEN <<x>>
    ELSE IF x <= Head(s) THEN <<x>> \o s
         ELSE <<Head(s)>> \o Insert(x, Tail(s))

RECURSIVE Sorted(_)
\* sorted(): ascending, duplicates kept
Sorted(s) == IF s = <<>> THEN <<>> ELSE Insert(Head(s), Sorted(Tail(s)))

RECURSIVE Dedup(_)
\* set(): one occurrence of each value
Dedup(s) ==
    IF s = <<>> THEN <<>>
    ELSE IF Head(s) \in Range(Tail(s)) THEN Dedup(Tail(s))
         ELSE <<Head(s)>> \o Dedup(Tail(s))

\* line 119: sorted(set(clean))
SortedSet(s) == Sorted(Dedup(s))

RECURSIVE Future(_, _)
\* line 123: [d for d in clean if d >= now]
Future(cl, n) ==
    IF cl = <<>> THEN <<>>
    ELSE IF Head(cl) >= n THEN <<Head(cl)>> \o Future(Tail(cl), n)
         ELSE Future(Tail(cl), n)

SelectNextFirstOfAll(cl, n) ==
    IF cl = <<>> THEN None
    ELSE LET future == Future(cl, n)
         IN  PyDatetime(IF future # <<>> THEN future[1] ELSE cl[1])
\* lines 121-124
SelectNext(cl, n) ==
    IF cl = <<>> THEN None
    ELSE LET future == Future(cl, n)
         IN  PyDatetime(IF future # <<>> THEN future[1] ELSE cl[Len(cl)])

-----------------------------------------------------------------------------
(* The two query strategies *)

TagModern == PyStr("get_earnings_dates")
TagIndex == PyStr("calendar:index")
TagColumn == PyStr("calendar:column")
TagFallback == PyStr("yfinance")
NoDateError == PyStr("No date found via yfinance endpoints")

\* what t.get_earnings_dates(limit=12) can answer
ModernResponses ==
    [shape : {"raise", "none", "empty", "nodatecolumn"}, vals : {<<>>}]
      \cup [shape : {"DatetimeIndex"}, vals : SeqsOf(DateLikes, 1, MaxDates)]
      \cup [shape : {"datecolumn"}, vals : SeqsOf(RawValues, 1, MaxDates)]

\* what t.calendar can answer
LegacyResponses ==
    [shape : {"raise", "none", "empty", "neither", "index_unreadable"}, vals : {<<>>}]
      \cup [shape : {"index_timestamp"}, vals : SeqsOf(DateLikes, 1, 1)]
      \cup [shape : {"index_scalar"}, vals : SeqsOf(RawValues, 1, 1)]
      \cup [shape : {"index_iterable"}, vals : SeqsOf(RawValues, 0, MaxDates)]
      \cup [shape : {"column"}, vals : SeqsOf(RawValues, 1, MaxDates)]

\* lines 59-80, from dt_candidates = [] and used = None
ModernStep(resp) ==
    CASE resp.shape = "DatetimeIndex" -> [cands |-> resp.vals, used |-> TagModern]
      [] resp.shape = "datecolumn"    -> [cands |-> Coerce(resp.vals), used |-> TagModern]
      [] resp.shape = "nodatecolumn"  -> [cands |-> <<>>, used |-> TagModern]
      [] OTHER                        -> [cands |-> <<>>, used |-> None]

LegacyAlways(cands) == TRUE
\* line 83: if not dt_candidates
LegacyNeeded(cands) == cands = <<>>

LegacyStepNoTag(resp, cands, u) ==
    CASE resp.shape = "index_timestamp"  -> [cands |-> resp.vals, used |-> u]
      [] resp.shape = "index_scalar"     -> [cands |-> Coerce(resp.vals), used |-> u]
      [] resp.shape = "index_iterable"   -> [cands |-> Coerce(resp.vals), used |-> u]
      [] resp.shape = "column"           -> [cands |-> Coerce(resp.vals), used |-> u]
      [] OTHER                           -> [cands |-> cands, used |-> u]
\* lines 84-108: the branches that find dates assign dt_candidates, the others
\* leave it as it is
LegacyStep(resp, cands, u) ==
    CASE resp.shape = "index_timestamp"  -> [cands |-> resp.vals, used |-> TagIndex]
      [] resp.shape = "index_scalar"     -> [cands |-> Coerce(resp.vals), used |-> TagIndex]
      [] resp.shape = "index_iterable"   -> [cands |-> Coerce(resp.vals), used |-> TagIndex]
      [] resp.shape = "index_unreadable" -> [cands |-> cands, used |-> TagIndex]
      [] resp.shape = "column"           -> [cands |-> Coerce(resp.vals), used |-> TagColumn]
      [] OTHER                           -> [cands |-> cands, used |-> u]

-----------------------------------------------------------------------------
(* The record of one resolution *)

\* lines 44-50
InitialResult(s) ==
    [Symbol |-> s, NextEarningsDate |-> None, Source |-> None,
     Details |-> None, Error |-> None]

\* datetime.isoformat() of a UTC instant
IsoFormat(t) == PyStr(<<t, "+00:00">>)
\* f"candidates={len(clean)}"
DetailsOf(cl) == PyStr(<<"candidates=", Len(cl)>>)

\* line 128: used or "yfinance"
SourceOf(u) == IF u = None THEN TagFallback ELSE u

PackageKeepError(res, nd, u, cl) ==
    IF nd # None
    THEN [res EXCEPT !.NextEarningsDate = IsoFormat(nd.t),
                     !.Source = SourceOf(u),
                     !.Details = DetailsOf(cl),
                     !.Error = NoDateError]
    ELSE [res EXCEPT !.Error = NoDateError]
\* lines 126-131
Package(res, nd, u, cl) ==
    IF nd # None
    THEN [res EXCEPT !.NextEarningsDate = IsoFormat(nd.t),
                     !.Source = SourceOf(u),
                     !.Details = DetailsOf(cl)]
    ELSE [res EXCEPT !.Error = NoDateError]

\* messages of the exceptions the provider raises
ExcMessages == {"boom", ""}

\* how a call of fetch_from_yf ends
Returns(rec) == [how |-> "return", rec |-> rec, msg |-> ""]
Raises(m) == [how |-> "raise", rec |-> None, msg |-> m]

OuterExceptMissing(res, m) == Raises(m)
\* lines 133-136: except Exception as e: result["Error"] = str(e); return result
OuterExcept(res, m) == Returns([res EXCEPT !.Error = PyStr(m)])

\* readings of datetime.now(timezone.utc), line 111
Nows == 0..(MaxWall + 1)

\* lines 44-136 as one function of what the provider answers and of the clock
FetchFromYf(s, tk, m, l, n) ==
    IF ~tk.ok THEN OuterExcept(InitialResult(s), tk.msg)
    ELSE LET a  == ModernStep(m)
             b  == IF LegacyNeeded(a.cands) THEN LegacyStep(l, a.cands, a.used) ELSE a
             cl == SortedSet(NormalizeAll(b.cands))
             nd == SelectNext(cl, n)
         IN  Returns(Package(InitialResult(s), nd, b.used, cl))

-----------------------------------------------------------------------------
(* fetch_from_yf, statement by statement, behind its st.cache_data memo *)

ResolveSymbols == {<<"A">>}

QModern == "get_earnings_dates"
QLegacy == "calendar"

ResolveInit ==
    /\ pc = "idle"
    /\ symbol = <<>>
    /\ df = None
    /\ cal = None
    /\ dt_candidates = <<>>
    /\ used = None
    /\ now = None
    /\ clean = <<>>
    /\ next_dt = None
    /\ result = None
    /\ calls = <<>>
    /\ cache = [s \in ResolveSymbols |-> None]
    \* no run of the batch block
    /\ raw = <<>>
    /\ max_workers = MinWorkers
    /\ legacy_str = TRUE
    /\ mpc = "idle"
    /\ symbols = <<>>
    /\ submitted = 0
    /\ queue = <<>>
    /\ running = {}
    /\ futures = <<>>
    /\ yielded = {}
    /\ out_rows = <<>>
    /\ completed = 0
    /\ merged = <<>>

\* the frame of a fresh call
Enter(s) ==
    /\ symbol' = s
    /\ df' = None
    /\ cal' = None
    /\ dt_candidates' = <<>>
    /\ used' = None
    /\ now' = None
    /\ clean' = <<>>
    /\ next_dt' = None
    /\ calls' = <<>>

\* line 37: the memo holds a record for the symbol, which is returned as it is
CallHit(s) ==
    /\ pc = "idle"
    /\ cache[s] # None
    /\ Enter(s)
    /\ result' = cache[s]
    /\ pc' = "idle"
    /\ UNCHANGED <<cache, bvars>>

\* lines 37, 44-50: no memo, the body runs
CallMiss(s) ==
    /\ pc = "idle"
    /\ cache[s] = None
    /\ Enter(s)
    /\ result' = InitialResult(s)
    /\ pc' = "ticker"
    /\ UNCHANGED <<cache, bvars>>

\* line 37, ttl: the memoised record has expired
Expire(s) ==
    /\ pc = "idle"
    /\ cache[s] # None
    /\ cache' = [cache EXCEPT ![s] = None]
    /\ UNCHANGED <<pc, symbol, df, cal, dt_candidates, used, now, clean, next_dt, result, calls, bvars>>

\* lines 53-56
TickerOk ==
    /\ pc = "ticker"
    /\ pc' = "modern"
    /\ UNCHANGED <<symbol, df, cal, dt_candidates, used, now, clean, next_dt, result, calls, cache, bvars>>

\* line 53 raises: lines 133-136
TickerRaise(m) ==
    /\ pc = "ticker"
    /\ LET o == OuterExcept(result, m)
       IN  IF o.how = "return"
           THEN result' = o.rec /\ pc' = "return"
           ELSE result' = result /\ pc' = "raised"
    /\ UNCHANGED <<symbol, df, cal, dt_candidates, used, now, clean, next_dt, calls, cache, bvars>>

\* lines 59-80
QueryModern(resp) ==
    /\ pc = "modern"
    /\ calls' = Append(calls, QModern)
    /\ LET a == ModernStep(resp)
       IN  dt_candidates' = dt_candidates \o a.cands /\ used' = a.used
    /\ df' = resp
    /\ pc' = "legacy"
    /\ UNCHANGED <<symbol, cal, now, clean, next_dt, result, cache, bvars>>

\* lines 83-108
QueryLegacy(resp) ==
    /\ pc = "legacy"
    /\ LegacyNeeded(dt_candidates)
    /\ calls' = Append(calls, QLegacy)
    /\ LET b == LegacyStep(resp, dt_candidates, used)
       IN  dt_candidates' = b.cands /\ used' = b.used
    /\ cal' = resp
    /\ pc' = "normalize"
    /\ UNCHANGED <<symbol, df, now, clean, next_dt, result, cache, bvars>>

\* line 83, the condition is false
SkipLegacy ==
    /\ pc = "legacy"
    /\ ~LegacyNeeded(dt_candidates)
    /\ pc' = "normalize"
    /\ UNCHANGED <<symbol, df, cal, dt_candidates, used, now, clean, next_dt, result, calls, cache, bvars>>

\* lines 111-119
Normalize(n) ==
    /\ pc = "normalize"
    /\ now' = PyDatetime(n)
    /\ clean' = SortedSet(NormalizeAll(dt_candidates))
    /\ pc' = "select"
    /\ UNCHANGED <<symbol, df, cal, dt_candidates, used, next_dt, result, calls, cache, bvars>>

\* lines 121-131
SelectAndPackage ==
    /\ pc = "select"
    /\ next_dt' = SelectNext(clean, now.t)
    /\ result' = Package(result, next_dt', used, clean)
    /\ pc' = "return"
    /\ UNCHANGED <<symbol, df, cal, dt_candidates, used, now, clean, calls, cache, bvars>>

\* line 136, and the memo of line 37 keeps what was returned
Return ==
    /\ pc = "return"
    /\ cache' = [cache EXCEPT ![symbol] = result]
    /\ pc' = "idle"
    /\ UNCHANGED <<symbol, df, cal, dt_candidates, used, now, clean, next_dt, result, calls, bvars>>

ResolveNext ==
    \/ \E s \in ResolveSymbols : CallHit(s)
    \/ \E s \in ResolveSymbols : CallMiss(s)
    \/ \E s \in ResolveSymbols : Expire(s)
    \/ TickerOk
    \/ \E m \in ExcMessages : TickerRaise(m)
    \/ \E resp \in ModernResponses : QueryModern(resp)
    \/ \E resp \in LegacyResponses : QueryLegacy(resp)
    \/ SkipLegacy
    \/ \E n \in Nows : Normalize(n)
    \/ SelectAndPackage
    \/ Return

ResolveSpec == ResolveInit /\ [][ResolveNext]_vars

-----------------------------------------------------------------------------
(* Text of the Symbol column *)

Text(chars) == [kind |-> "text", chars |-> chars]
\* an empty spreadsheet cell: NaN in the frame read_excel builds
Missing == [kind |-> "missing", chars |-> <<>>]

\* str.upper() on one character
UpperChar(c) ==
    CASE c = "a" -> "A"
      [] c = "b" -> "B"
      [] c = "m" -> "M"
      [] c = "n" -> "N"
      [] OTHER   -> c

Upper(chars) == [i \in 1..Len(chars) |-> UpperChar(chars[i])]

RECURSIVE LStrip(_)
LStrip(chars) ==
    IF chars # <<>> /\ Head(chars) = " " THEN LStrip(Tail(chars)) ELSE chars

RECURSIVE RStrip(_)
RStrip(chars) ==
    IF chars # <<>> /\ chars[Len(chars)] = " "
    THEN RStrip(SubSeq(chars, 1, Len(chars) - 1))
    ELSE chars

\* str.strip()
Strip(chars) == RStrip(LStrip(chars))

\* Series.astype(str) on one cell.  Builds differ on a missing cell: it becomes
\* the text "nan" (legacy = TRUE), or it stays missing.
AsTypeStr(cell, legacy) ==
    IF cell.kind = "missing" /\ legacy THEN Text(<<"n", "a", "n">>) ELSE cell

\* the .str accessor works on a text cell and keeps a missing one
StrStrip(cell) == IF cell.kind = "missing" THEN cell ELSE Text(Strip(cell.chars))
StrUpper(cell) == IF cell.kind = "missing" THEN cell ELSE Text(Upper(cell.chars))

\* .replace({"": pd.NA})
ReplaceEmpty(cell) == IF cell = Text(<<>>) THEN Missing ELSE cell

RECURSIVE Unique(_)
\* .unique(): first occurrences, in order
Unique(s) ==
    IF s = <<>> THEN <<>>
    ELSE LET front == Unique(SubSeq(s, 1, Len(s) - 1))
             last  == s[Len(s)]
         IN  IF last \in Range(front) THEN front ELSE Append(front, last)

\* the cell's text as the preprocessing normalises it (line 166, up to dropna)
CleanCell(cell, legacy) ==
    ReplaceEmpty(StrUpper(StrStrip(AsTypeStr(cell, legacy))))

PreprocessNoUnique(rows, legacy) ==
    LET cleaned == [i \in 1..Len(rows) |-> CleanCell(rows[i].Symbol, legacy)]
        kept    == Keep(cleaned, {c \in Range(cleaned) : c.kind = "text"})
    IN  [i \in 1..Len(kept) |-> kept[i].chars]
\* lines 165-167
Preprocess(rows, legacy) ==
    LET cleaned == [i \in 1..Len(rows) |-> CleanCell(rows[i].Symbol, legacy)]
        kept    == Keep(cleaned, {c \in Range(cleaned) : c.kind = "text"})
        uniq    == Unique(kept)
    IN  [i \in 1..Len(uniq) |-> uniq[i].chars]

\* line 194: merged["Symbol"].astype(str).str.upper()
MergeKey(cell, legacy) == StrUpper(AsTypeStr(cell, legacy))

-----------------------------------------------------------------------------
(* The merge of lines 192-199 *)

ResultColumns == {"NextEarningsDate", "Source", "Details", "Error"}

\* an uploaded row with the four result columns
OutputRow(row, rec) ==
    [Symbol |-> row.Symbol, Other |-> row.Other,
     NextEarningsDate |-> rec.NextEarningsDate, Source |-> rec.Source,
     Details |-> rec.Details, Error |-> rec.Error]

\* the result columns of a row the join finds no record for
Absent == [NextEarningsDate |-> None, Source |-> None, Details |-> None, Error |-> None]

RECURSIVE Matches(_, _)
\* the records of out whose Symbol is the key, in the order of out
Matches(out, key) ==
    IF out = <<>> THEN <<>>
    ELSE IF key.kind = "text" /\ Head(out).Symbol = key.chars
         THEN <<Head(out)>> \o Matches(Tail(out), key)
         ELSE Matches(Tail(out), key)

RECURSIVE JoinInner(_, _, _)
JoinInner(rows, out, legacy) ==
    IF out = <<>> THEN <<>>
    ELSE LET hit == {r \in Range(rows) : MergeKey(r.Symbol, legacy) = Text(Head(out).Symbol)}
         IN  [j \in 1..Len(Keep(rows, hit)) |-> OutputRow(Keep(rows, hit)[j], Head(out))]
               \o JoinInner(rows, Tail(out), legacy)

RECURSIVE Join(_, _, _)
\* DataFrame.join(out_map, on=key): a left join, one output row per matching
\* record, one row of absent values where none matches
Join(rows, out, legacy) ==
    IF rows = <<>> THEN <<>>
    ELSE LET row == Head(rows)
             ms  == Matches(out, MergeKey(row.Symbol, legacy))
             me  == IF ms = <<>> THEN <<OutputRow(row, Absent)>>
                    ELSE [j \in 1..Len(ms) |-> OutputRow(row, ms[j])]
         IN  me \o Join(Tail(rows), out, legacy)

-----------------------------------------------------------------------------
(* The run block: preprocessing, thread pool, collection, merge *)

\* cells of the uploaded Symbol column
Cells ==
    {Text(<<"a">>), Text(<<" ", "A">>), Text(<<"m">>), Text(<<"b">>),
     Text(<<" ">>), Missing}

\* uploaded sheets: the Symbol column and one other column
Sheets ==
    UNION {{[i \in 1..n |-> [Symbol |-> c[i], Other |-> i]] : c \in [1..n -> Cells]} :
           n \in 0..MaxRows}

\* what the provider and the clock give one task of the batch
BatchAnswers ==
    {[tk |-> [ok |-> FALSE, msg |-> "boom"],
      m |-> [shape |-> "none", vals |-> <<>>],
      l |-> [shape |-> "none", vals |-> <<>>], n |-> 0],
     [tk |-> [ok |-> TRUE, msg |-> ""],
      m |-> [shape |-> "DatetimeIndex", vals |-> <<[kind |-> "date", wall |-> 1, tz |-> "naive"]>>],
      l |-> [shape |-> "none", vals |-> <<>>], n |-> 0],
     [tk |-> [ok |-> TRUE, msg |-> ""],
      m |-> [shape |-> "raise", vals |-> <<>>],
      l |-> [shape |-> "empty", vals |-> <<>>], n |-> 0]}

\* a future that has not finished
Pending == [how |-> "pending", rec |-> None, msg |-> ""]

Init ==
    /\ raw \in Sheets
    /\ max_workers \in MinWorkers..MaxWorkers
    /\ legacy_str \in BOOLEAN
    /\ mpc = "idle"
    /\ symbols = <<>>
    /\ submitted = 0
    /\ queue = <<>>
    /\ running = {}
    /\ futures = <<>>
    /\ yielded = {}
    /\ out_rows = <<>>
    /\ completed = 0
    /\ merged = <<>>
    \* no call of fetch_from_yf outside the pool
    /\ pc = "idle"
    /\ symbol = <<>>
    /\ df = None
    /\ cal = None
    /\ dt_candidates = <<>>
    /\ used = None
    /\ now = None
    /\ clean = <<>>
    /\ next_dt = None
    /\ result = None
    /\ calls = <<>>
    /\ cache = [s \in ResolveSymbols |-> None]

\* lines 153-178: the button is pressed
CanRun == mpc = "idle"
Run ==
    /\ CanRun
    /\ symbols' = Preprocess(raw, legacy_str)
    /\ mpc' = IF symbols' = <<>> THEN "stopped" ELSE "submit"
    /\ UNCHANGED <<raw, max_workers, legacy_str, submitted, queue, running, futures,
                   yielded, out_rows, completed, merged, rvars>>

\* line 182: ex.submit(fetch_from_yf, s) for the next s of symbols
CanSubmit == mpc = "submit"
Submit ==
    /\ CanSubmit
    /\ submitted' = submitted + 1
    /\ queue' = Append(queue, submitted')
    /\ futures' = Append(futures, Pending)
    /\ mpc' = IF submitted' = Len(symbols) THEN "collect" ELSE "submit"
    /\ UNCHANGED <<raw, max_workers, legacy_str, symbols, running, yielded, out_rows,
                   completed, merged, rvars>>

PoolHasRoomAlways(busy, workers) == TRUE
\* line 181: the pool runs at most max_workers threads
PoolHasRoom(busy, workers) == Cardinality(busy) < workers

\* a worker thread takes the oldest queued task
CanStart == queue # <<>> /\ PoolHasRoom(running, max_workers)
Start ==
    /\ CanStart
    /\ running' = running \cup {Head(queue)}
    /\ queue' = Tail(queue)
    /\ UNCHANGED <<raw, max_workers, legacy_str, mpc, symbols, submitted, futures,
                   yielded, out_rows, completed, merged, rvars>>

\* the task's call of fetch_from_yf ends and sets its future
CanFinish(i) == i \in running
Finish(i, a) ==
    /\ CanFinish(i)
    /\ futures' = [futures EXCEPT ![i] = FetchFromYf(symbols[i], a.tk, a.m, a.l, a.n)]
    /\ running' = running \ {i}
    /\ UNCHANGED <<raw, max_workers, legacy_str, mpc, symbols, submitted, queue,
                   yielded, out_rows, completed, merged, rvars>>

\* lines 183-188: as_completed yields a finished future; fut.result() returns
\* the record or raises what the task raised
CanCollect(i) ==
    /\ mpc = "collect"
    /\ i \in 1..Len(futures)
    /\ i \notin yielded
    /\ futures[i].how # "pending"
Collect(i) ==
    /\ CanCollect(i)
    /\ yielded' = yielded \cup {i}
    /\ IF futures[i].how = "return"
       THEN /\ out_rows' = Append(out_rows, futures[i].rec)
            /\ completed' = completed + 1
            /\ mpc' = IF completed' = Len(symbols) THEN "merge" ELSE "collect"
       ELSE /\ mpc' = "crashed"
            /\ UNCHANGED <<out_rows, completed>>
    /\ UNCHANGED <<raw, max_workers, legacy_str, symbols, submitted, queue, running,
                   futures, merged, rvars>>

\* lines 190-199
CanMerge == mpc = "merge"
Merge ==
    /\ CanMerge
    /\ merged' = Join(raw, out_rows, legacy_str)
    /\ mpc' = "shown"
    /\ UNCHANGED <<raw, max_workers, legacy_str, symbols, submitted, queue, running,
                   futures, yielded, out_rows, completed, rvars>>

Next ==
    \/ Run
    \/ Submit
    \/ Start
    \/ \E i \in running, a \in BatchAnswers : Finish(i, a)
    \/ \E i \in 1..Len(futures) : Collect(i)
    \/ Merge

Spec == Init /\ [][Next]_vars

-----------------------------------------------------------------------------
(* Vocabulary of the properties *)

IsSet(v) == v # None

\* fetch_from_yf has a record in hand that it returns or has returned
HasRecord == pc \in {"return", "idle"} /\ result # None

\* a Symbol cell that holds no symbol: empty, whitespace-only or missing
IsBlank(cell) == cell.kind = "missing" \/ Strip(cell.chars) = <<>>

\* the symbol a non-blank cell names
DispatchKey(cell) == Upper(Strip(cell.chars))

\* the symbols the sheet names
SheetSymbols == {DispatchKey(raw[i].Symbol) : i \in {k \in 1..Len(raw) : ~IsBlank(raw[k].Symbol)}}

\* tasks handed to the pool so far, and those among them for symbol s
Dispatched == 1..submitted
TasksFor(s) == {i \in Dispatched : symbols[i] = s}
RecordsFor(s) == {j \in 1..Len(out_rows) : out_rows[j].Symbol = s}

ResultFields(r) ==
    [NextEarningsDate |-> r.NextEarningsDate, Source |-> r.Source,
     Details |-> r.Details, Error |-> r.Error]

\* the dates the modern strategy's answer holds
ModernDates(resp) ==
    IF resp.shape \in {"DatetimeIndex", "datecolumn"}
    THEN {k \in 1..Len(resp.vals) : resp.vals[k].kind = "date"}
    ELSE {}

-----------------------------------------------------------------------------
(* C1: every row whose Symbol, trimmed and upper-cased, is a symbol that was
   resolved carries that symbol's NextEarningsDate, Source, Details and Error
   in the merged output.  The code computes the merge key without the trim, so
   this fails for a row such as " A". *)
C1_JoinUsesDispatchKey ==
    mpc = "shown" =>
        \A i \in 1..Len(raw) : \A j \in 1..Len(out_rows) :
            (~IsBlank(raw[i].Symbol) /\ DispatchKey(raw[i].Symbol) = out_rows[j].Symbol)
                => /\ i <= Len(merged)
                   /\ ResultFields(merged[i]) = ResultFields(out_rows[j])

(* C2: the record fetch_from_yf returns has exactly one of NextEarningsDate
   and Error set, on every path; with an empty normalised candidate set it has
   Error set and NextEarningsDate, Source and Details absent. *)
C2_ExactlyOneOfDateAndError ==
    /\ HasRecord => (IsSet(result.NextEarningsDate) # IsSet(result.Error))
    /\ (pc = "return" /\ clean = <<>>) =>
           /\ IsSet(result.Error)
           /\ ~IsSet(result.NextEarningsDate)
           /\ ~IsSet(result.Source)
           /\ ~IsSet(result.Details)

\* a date found by the legacy strategy is returned
C2_Witness ==
    /\ pc = "return"
    /\ calls = <<QModern, QLegacy>>
    /\ IsSet(result.NextEarningsDate)
    /\ ~IsSet(result.Error)

(* C3: one task is dispatched for each distinct trimmed, upper-cased symbol of
   the sheet and no symbol is dispatched twice; when the batch has finished
   the result list holds exactly one record per dispatched task, one for each
   symbol of the sheet, whatever the completion order. *)
C3_OneTaskOneRecordPerSymbol ==
    /\ \A i \in Dispatched : Cardinality(TasksFor(symbols[i])) = 1
    /\ \A j \in 1..Len(out_rows) : Cardinality(RecordsFor(out_rows[j].Symbol)) = 1
    /\ mpc \in {"collect", "merge", "shown"} =>
           \A s \in SheetSymbols : Cardinality(TasksFor(s)) = 1
    /\ mpc \in {"merge", "shown"} =>
           /\ Len(out_rows) = Len(symbols)
           /\ \A s \in SheetSymbols : Cardinality(RecordsFor(s)) = 1
           /\ \A i \in Dispatched : Cardinality(RecordsFor(symbols[i])) = 1

\* "a" and " A" were fetched once, and the second task finished first
C3_Witness ==
    /\ mpc = "shown"
    /\ Len(raw) = 3
    /\ \E i, k \in 1..Len(raw) : raw[i].Symbol = Text(<<"a">>) /\ raw[k].Symbol = Text(<<" ", "A">>)
    /\ Len(symbols) = 2
    /\ out_rows[1].Symbol = symbols[2]

(* C4: the selected date is the earliest normalised instant that is >= now if
   there is one and the latest instant otherwise; it is a member of the
   candidate sequence, which is deduplicated and sorted ascending and holds
   the normalised instants of the candidates. *)
C4_SelectionRule ==
    (pc = "return" /\ IsSet(now)) =>
        LET S == Range(clean)
            F == {d \in S : d >= now.t}
        IN  /\ \A a, b \in 1..Len(clean) : a < b => clean[a] < clean[b]
            /\ S = {ToUtc(dt_candidates[k]) : k \in 1..Len(dt_candidates)}
            /\ (S = {}) = (next_dt = None)
            /\ S # {} =>
                 /\ next_dt.t \in S
                 /\ F # {} => (next_dt.t \in F /\ \A d \in F : next_dt.t <= d)
                 /\ F = {} => \A d \in S : d <= next_dt.t

\* two instants, all in the past: the fallback picks the later one
C4_Witness ==
    /\ pc = "return"
    /\ Len(clean) = 2
    /\ IsSet(now)
    /\ now.t > clean[2]
    /\ next_dt = PyDatetime(clean[2])

(* C5: the merged output has the uploaded rows, in the uploaded order, each
   with its original column values and the four result columns; no row is
   added, dropped, duplicated or reordered, whatever the completion order. *)
C5_MergedKeepsRows ==
    mpc = "shown" =>
        /\ Len(merged) = Len(raw)
        /\ \A i \in 1..Len(raw) :
              /\ merged[i].Symbol = raw[i].Symbol
              /\ merged[i].Other = raw[i].Other
              /\ DOMAIN merged[i] = DOMAIN raw[i] \cup ResultColumns

\* three tasks, the last dispatched finished first
C5_Witness ==
    /\ mpc = "shown"
    /\ Len(symbols) = 3
    /\ out_rows[1].Symbol = symbols[3]
    /\ Len(merged) = 3

\* steps the run still has to take
Remaining ==
    IF mpc = "idle" THEN 4 * Len(raw) + 2
    ELSE (4 * Len(symbols)
          - submitted
          - (submitted - Len(queue))
          - Cardinality({i \in 1..Len(futures) : futures[i].how # "pending"})
          - Cardinality(yielded))
         + (IF mpc \in {"shown", "stopped", "crashed"} THEN 0 ELSE 1)

\* the run is over with a record of every dispatched task in the result list
RunDone ==
    \/ mpc = "stopped" /\ symbols = <<>>
    \/ /\ mpc = "shown"
       /\ submitted = Len(symbols)
       /\ \A i \in Dispatched : \E j \in 1..Len(out_rows) : out_rows[j] = futures[i].rec

\* some thread can take a step: the guard of one of the actions holds
CanStep ==
    \/ CanRun
    \/ CanSubmit
    \/ CanStart
    \/ \E i \in 1..Len(futures) : CanFinish(i)
    \/ \E i \in 1..Len(futures) : CanCollect(i)
    \/ CanMerge

\* no task raised, and a failed resolution is a record with Error set
FailuresCaptured ==
    /\ mpc # "crashed"
    /\ \A i \in 1..Len(futures) :
          /\ futures[i].how \in {"pending", "return"}
          /\ futures[i].how = "return" =>
                /\ futures[i].rec.Symbol = symbols[i]
                /\ IsSet(futures[i].rec.NextEarningsDate) # IsSet(futures[i].rec.Error)

(* C6: a failure of one symbol's resolution is captured in that symbol's
   record and never raised, and it stops no other task: every step of the run
   makes progress (Remaining decreases), and as long as the run is not over
   with the record of every dispatched task in the result list, some thread
   can take a step.  With
   every thread scheduled and every provider call returning or raising, this
   is: every dispatched task eventually completes and contributes its
   record. *)
C6_FailuresIsolated ==
    [][ /\ FailuresCaptured /\ FailuresCaptured'
        /\ Remaining' < Remaining
        /\ RunDone \/ CanStep
        /\ RunDone' \/ CanStep' ]_vars

\* an exception, an empty candidate set and a date in one finished batch
C6_Witness ==
    /\ mpc = "shown"
    /\ \E j \in 1..Len(out_rows) : out_rows[j].Error = PyStr("boom")
    /\ \E j \in 1..Len(out_rows) : out_rows[j].Error = NoDateError
    /\ \E j \in 1..Len(out_rows) : IsSet(out_rows[j].NextEarningsDate)

(* C7: at most max_workers tasks execute at any time, and while max_workers
   tasks are executing no further task starts: a waiting task starts only once
   a running one has finished. *)
C7_BoundedParallelism ==
    [][ /\ Cardinality(running') <= max_workers
        /\ Cardinality(running) = max_workers => running' \subseteq running ]_vars

\* more unique symbols than workers: the pool is full and a task waits
C7_Witness ==
    /\ Cardinality(running) = max_workers
    /\ queue # <<>>
    /\ Len(symbols) > max_workers

(* C8: every dispatched symbol is a non-empty, trimmed, upper-cased string
   that a non-blank row names; no task is dispatched for a blank row (empty,
   whitespace-only or missing cell), and blank rows get all-absent result
   fields.  In a build whose astype(str) turns a missing cell into "nan", the
   code dispatches "NAN" for it and joins that result onto the row. *)
C8_BlankRowsNeverDispatched ==
    /\ \A i \in Dispatched :
          /\ symbols[i] # <<>>
          /\ Strip(symbols[i]) = symbols[i]
          /\ Upper(symbols[i]) = symbols[i]
          /\ symbols[i] \in SheetSymbols
    /\ mpc = "shown" =>
          \A i \in 1..Len(raw) :
              IsBlank(raw[i].Symbol) =>
                  (i <= Len(merged) /\ ResultFields(merged[i]) = Absent)

(* C9: the modern strategy is queried first and at most once; the legacy
   strategy is queried, at most once, exactly when the modern one produced no
   candidate (empty answer, no date column, no readable date, or an exception);
   when the modern strategy produced candidates they are the only candidates
   and the record's Source is "get_earnings_dates". *)
C9_StrategyOrder ==
    /\ calls \in {<<>>, <<QModern>>, <<QModern, QLegacy>>}
    /\ (df = None) = (calls = <<>>)
    /\ (cal = None) = (QLegacy \notin Range(calls))
    /\ (pc \in {"normalize", "select", "return"} /\ df # None) =>
          /\ (ModernDates(df) = {}) = (calls = <<QModern, QLegacy>>)
          /\ ModernDates(df) # {} =>
                /\ calls = <<QModern>>
                /\ used = TagModern
                /\ dt_candidates = Keep(df.vals, DateLikes)
                /\ pc = "return" => result.Source = TagModern

\* an exception of the modern query was swallowed and the legacy one answered
C9_Witness ==
    /\ pc = "return"
    /\ df # None /\ cal # None
    /\ df.shape = "raise"
    /\ cal.shape = "index_timestamp"
    /\ result.Source = TagIndex

(* C10: a successful record's Source is "get_earnings_dates",
   "calendar:index" or "calendar:column", never "yfinance", and it names the
   strategy whose answer supplied the candidates, also when the modern answer
   was non-empty without dates and the legacy strategy supplied them. *)
C10_SourceNamesSupplier ==
    (HasRecord /\ IsSet(result.NextEarningsDate)) =>
        /\ result.Source \in {TagModern, TagIndex, TagColumn}
        /\ pc = "return" =>
              /\ result.Source = TagModern =>
                    (cal = None /\ ModernDates(df) # {})
              /\ result.Source = TagIndex =>
                    (cal # None /\ cal.shape \in {"index_timestamp", "index_scalar", "index_iterable"})
              /\ result.Source = TagColumn =>
                    (cal # None /\ cal.shape = "column")

\* the modern answer had rows but no date column; the legacy column supplied
C10_Witness ==
    /\ pc = "return"
    /\ df # None /\ cal # None
    /\ df.shape = "nodatecolumn"
    /\ cal.shape = "column"
    /\ result.Source = TagColumn

=============================================================================
